---- MODULE Spec2Model ----
(***************************************************************************)
(* CacheDependencyService (src/src/cache-dependency.service.ts): a         *)
(* tag-versioned cache facade over a shared key/value store.               *)
(*                                                                         *)
(* State: the backing store (cacheManager), the wall clock read by         *)
(* Date.now(), and for each caller the position and the local variables of *)
(* the call it has in flight.  Every `await this.cacheManager.X(...)` is   *)
(* one atomic step; the code between two awaits belongs to the step of the *)
(* await that precedes it.  Expiry by ttl is the store's own business and  *)
(* is not modelled: a stored entry stays until it is overwritten/deleted.  *)
(***************************************************************************)
EXTENDS Naturals, Sequences, FiniteSets, TLC

(***************************************************************************)
(* JavaScript values.  Values whose static type is `unknown` or a union    *)
(* with undefined are tagged with their type.                              *)
(***************************************************************************)
Undefined == [t |-> "undefined"]
Null == [t |-> "null"]
Str(s) == [t |-> "string", s |-> s]
Num(n) == [t |-> "number", n |-> n]
Bool(b) == [t |-> "boolean", b |-> b]
Arr(a) == [t |-> "array", a |-> a]
Obj(o) == [t |-> "object", o |-> o]
Throw(e) == [t |-> "throw", e |-> e]

\* Array.isArray(v)
IsArray(v) == v.t = "array"

\* isNil-style test used on dependencyKeys in set: v === null || v === undefined
IsNullish(v) == v.t \in {"null", "undefined"}

\* JavaScript truthiness, as tested by `if (dependencyKeys)` in invalidate
Truthy(v) ==
    CASE v.t \in {"undefined", "null"} -> FALSE
      [] v.t = "string" -> v.s # ""
      [] v.t = "boolean" -> v.b
      [] v.t = "number" -> v.n # 0
      [] OTHER -> TRUE

(***************************************************************************)
(* Bounds and input domains.                                               *)
(***************************************************************************)
MaxTime == 2

Procs == {"p1", "p2"}
Keys == {"k1", "k2"}
Tags == {"a", "b"}
Values == {Str("v1"), Str("v2")}

\* dependencyKeys arguments given to set: none, a single string, arrays
\* (the empty one, and one naming the same tag twice, included)
SetDependencyInputs ==
    { Undefined, Null, Str("a"),
      Arr(<<>>), Arr(<<Str("a")>>), Arr(<<Str("b")>>),
      Arr(<<Str("a"), Str("b")>>), Arr(<<Str("a"), Str("a")>>) }

\* dependencyKeys arguments given to invalidate
InvalidateInputs ==
    { Undefined, Null, Str(""), Str("a"),
      Arr(<<>>), Arr(<<Str("a")>>), Arr(<<Str("b")>>),
      Arr(<<Str("a"), Str("b")>>) }

(***************************************************************************)
(* Key normalisation.                                                      *)
(***************************************************************************)
_buildCacheKey(key, prefix) == prefix \o key
_buildDataCacheKey(key) == _buildCacheKey(key, "D_")
_buildDependencyCacheKey(key) == _buildCacheKey(key, "T_")

DataKeys == { _buildDataCacheKey(k) : k \in Keys }
TagKeys == { _buildDependencyCacheKey(t) : t \in Tags }
StoreKeys == DataKeys \cup TagKeys

(***************************************************************************)
(* Serialisation.  A stored data entry is a JavaScript string holding JSON *)
(* text; the text is modelled by the value it denotes (field json), and a  *)
(* string that is not JSON text has no such field.                         *)
(***************************************************************************)
\* What JSON.stringify keeps of a value: a member whose value is undefined
\* is omitted from its object, an undefined array element becomes null.
RECURSIVE Serialize(_)
Serialize(v) ==
    CASE v.t = "array" ->
           Arr([i \in DOMAIN v.a |->
                  IF v.a[i].t = "undefined" THEN Null ELSE Serialize(v.a[i])])
      [] v.t = "object" ->
           Obj([m \in {n \in DOMAIN v.o : v.o[n].t # "undefined"} |->
                  Serialize(v.o[m])])
      [] OTHER -> v

JSONstringify(v) == [t |-> "string", json |-> Serialize(v)]

\* JSON.parse: the denoted value, or a SyntaxError
JSONparse(text) ==
    IF "json" \in DOMAIN text THEN text.json ELSE Throw("SyntaxError")

\* String(Date.now()) at clock value n
StringOfDate(n) == Str(ToString(n))

\* obj[name] on a parsed value
Member(v, name) ==
    IF v.t = "object" /\ name \in DOMAIN v.o THEN v.o[name] ELSE Undefined

(***************************************************************************)
(* Dependency records {key, version} held by a call.                       *)
(***************************************************************************)
Dependency(k, v) == [key |-> k, version |-> v]

\* a Dependency[] as the JavaScript value it is
DependenciesValue(deps) ==
    Arr([i \in DOMAIN deps |->
           Obj([key |-> Str(deps[i].key), version |-> deps[i].version])])

\* isEqual comparing the keys of the records only (a deviation the
\* properties must tell from isEqual)
isEqual_KeysOnly(a, b) ==
    [i \in DOMAIN a.a |-> Member(a.a[i], "key")]
       = [i \in DOMAIN b.a |-> Member(b.a[i], "key")]

\* lodash.isequal on two tagged values: deep structural equality, objects
\* compared by their own members (a member that is present and undefined
\* is not the same as a member that is missing)
isEqual(a, b) == a = b

\* every key, whether or not a version came back (a deviation the
\* properties must tell from UnavailableKeys)
UnavailableKeys_All(deps) == [i \in DOMAIN deps |-> deps[i].key]

\* the keys of _generateDependencyVersions' list that came back undefined
RECURSIVE UnavailableKeys(_)
UnavailableKeys(deps) ==
    IF deps = <<>> THEN <<>>
    ELSE IF Head(deps).version.t = "undefined"
         THEN <<Head(deps).key>> \o UnavailableKeys(Tail(deps))
         ELSE UnavailableKeys(Tail(deps))

Min(S) == CHOOSE x \in S : \A y \in S : x <= y

\* arr2.forEach: replace the first record of arr1 with the same key,
\* or push when there is none
RECURSIVE _mergeDependencyVersions(_, _)
_mergeDependencyVersions(arr1, arr2) ==
    IF arr2 = <<>> THEN arr1
    ELSE LET e2 == Head(arr2)
             found == {i \in DOMAIN arr1 : arr1[i].key = e2.key}
             merged == IF found # {}
                       THEN [arr1 EXCEPT ![Min(found)] = e2]
                       ELSE Append(arr1, e2)
         IN  _mergeDependencyVersions(merged, Tail(arr2))

(***************************************************************************)
(* The part of _validateDependencyVersions that runs before its first      *)
(* store call.                                                             *)
(***************************************************************************)
\* ValidateShape without the empty-array case of "no dependency" (a
\* deviation the properties must tell from ValidateShape)
ValidateShape_EmptyInvalid(data) ==
    IF ~(data.t # "null" /\ IsArray(data) /\ Len(data.a) = 2) THEN "invalid"
    ELSE IF data.a[2].t = "null" THEN "valid"
    ELSE IF ~IsArray(data.a[2]) THEN "throw"
    ELSE IF Len(data.a[2].a) = 0 THEN "invalid"
    ELSE IF \E i \in DOMAIN data.a[2].a : IsNullish(data.a[2].a[i])
         THEN "throw"
    ELSE "fetch"

\* "invalid": isValid stays false; "valid": return true (no dependency);
\* "throw": cachedData[1].map is not a function, or e.key on null;
\* "fetch": the versions of the snapshot's keys have to be read
ValidateShape(data) ==
    IF ~(data.t # "null" /\ IsArray(data) /\ Len(data.a) = 2) THEN "invalid"
    ELSE IF data.a[2].t = "null"
            \/ (IsArray(data.a[2]) /\ Len(data.a[2].a) = 0) THEN "valid"
    ELSE IF ~IsArray(data.a[2]) THEN "throw"
    ELSE IF \E i \in DOMAIN data.a[2].a : IsNullish(data.a[2].a[i])
         THEN "throw"
    ELSE "fetch"

\* cachedData[1].map(e => e.key); the stored payloads of this model carry
\* string keys only
SnapshotKeys(data) ==
    [i \in DOMAIN data.a[2].a |-> Member(data.a[2].a[i], "key").s]

(***************************************************************************)
(* State.                                                                  *)
(*   store   cacheManager: key -> stored string, Undefined when absent     *)
(*   now     Date.now()                                                    *)
(*   pc      where each caller's call stands: "idle", a position inside    *)
(*           the call, or "done" (the promise has settled with frame.ret)  *)
(*   frame   the arguments and local variables of each caller's call, and  *)
(*           (calls) the store calls it has issued so far, in order        *)
(*   obs     per data key, what the callers have seen complete: the last   *)
(*           completed set and what followed it (history, read by the      *)
(*           properties only)                                              *)
(***************************************************************************)
VARIABLES store, now, pc, frame, obs

vars == <<store, now, pc, frame, obs>>

IdleFrame ==
    [ op |-> "none", key |-> "", value |-> Undefined,
      dependencyKeys |-> <<>>, cachedData |-> Undefined,
      currentDependencies |-> <<>>, newDependencyKeys |-> <<>>,
      itemObjects |-> <<>>, version |-> Undefined, ret |-> Undefined,
      calls |-> <<>> ]

\* one call on cacheManager: get(key), set(key, ...) or del(key)
StoreCall(op, key) == [op |-> op, key |-> key]

\* what a call settles with when a cacheManager call it awaits rejects
StoreError == Throw("StoreError")

NoEntry ==
    [phase |-> "none", value |-> Undefined, deps |-> <<>>, watch |-> {}]

EmptyStore == [k \in StoreKeys |-> Undefined]

Init ==
    /\ store = EmptyStore
    /\ now = 1
    /\ pc = [p \in Procs |-> "idle"]
    /\ frame = [p \in Procs |-> IdleFrame]
    /\ obs = [d \in DataKeys |-> NoEntry]

\* elements of sequence s
Range(s) == { s[i] : i \in DOMAIN s }

(***************************************************************************)
(* obs after the call of p with final frame f has completed: value and     *)
(* deps are the value and the normalised tag keys of the last completed    *)
(* set(k), watch is the set of callers with a get(k) in flight that they   *)
(* called after a get(k) had found the entry stale and that no set(k) has  *)
(* written the entry during, and                                           *)
(*   phase "minted"  that set was the last call to complete, and it found  *)
(*                   a tag without a version                               *)
(*         "fresh"   that set was the last call to complete                *)
(*         "set"     other calls have completed since                      *)
(*         "hit"     an invalidate naming one of deps has completed since  *)
(*         "read"    a get(k) has returned value since the set, and no     *)
(*                   invalidate naming one of deps has completed since     *)
(*         "touched" after that get, an invalidate naming one of deps has  *)
(*                   completed                                             *)
(*         "stale"   a get(k) has since read the entry now stored under k, *)
(*                   found its snapshot differing from the versions of its *)
(*                   tags, and returned not-found                          *)
(*         "deleted" delete(k) has completed since                         *)
(*         "unknown" a set(k), a delete(k) or an invalidate naming one of  *)
(*                   deps has ended with a store fault since               *)
(***************************************************************************)
Observed(p, f) ==
    [d \in DataKeys |->
       LET o == IF f.op = "get" /\ d = f.key
                THEN [obs[d] EXCEPT !.watch = @ \ {p}] ELSE obs[d]
           aged == IF o.phase \in {"minted", "fresh"}
                   THEN [o EXCEPT !.phase = "set"] ELSE o
           named == Range(o.deps) \cap Range(f.dependencyKeys) # {}
       IN  CASE f.ret = StoreError ->
                  IF \/ f.op \in {"set", "delete"} /\ d = f.key
                     \/ f.op = "invalidate" /\ named
                  THEN [NoEntry EXCEPT !.phase = "unknown"]
                  ELSE aged
             [] f.op = "set" ->
                  IF d = f.key
                  THEN [ phase |-> IF f.newDependencyKeys # <<>>
                                   THEN "minted" ELSE "fresh",
                         value |-> f.value,
                         deps |-> f.dependencyKeys,
                         watch |-> {} ]
                  ELSE aged
             [] f.op = "get" ->
                  IF d = f.key /\ o.phase \in {"minted", "fresh", "set"}
                     /\ f.ret = o.value
                  THEN [o EXCEPT !.phase = "read"]
                  ELSE IF d = f.key /\ f.ret = Undefined
                          /\ f.itemObjects # <<>>
                          /\ store[d] = f.cachedData
                  THEN [o EXCEPT !.phase = "stale"]
                  ELSE aged
             [] f.op = "invalidate" ->
                  IF named /\ o.phase = "read"
                  THEN [o EXCEPT !.phase = "touched"]
                  ELSE IF named /\ o.phase \in {"minted", "fresh", "set"}
                  THEN [o EXCEPT !.phase = "hit"]
                  ELSE aged
             [] f.op = "delete" ->
                  IF d = f.key
                  THEN [NoEntry EXCEPT !.phase = "deleted"]
                  ELSE aged
             [] OTHER -> o]

\* the call of p moves on to position l with locals f
Goto(p, l, f) ==
    /\ pc' = [pc EXCEPT ![p] = l]
    /\ frame' = [frame EXCEPT ![p] = f]
    /\ UNCHANGED obs

\* the call of p settles with locals f (f.ret is its result)
Finish(p, f) ==
    /\ pc' = [pc EXCEPT ![p] = "done"]
    /\ frame' = [frame EXCEPT ![p] = f]
    /\ obs' = Observed(p, f)

(***************************************************************************)
(* Calls.  A call runs synchronously up to its first store call.  The ttl  *)
(* argument of set is handed to the store unread and is left out.          *)
(***************************************************************************)
\* dependencyKeys.map(e => this._buildDependencyCacheKey(e))
MapDependencyKeys(list) ==
    [i \in DOMAIN list |-> _buildDependencyCacheKey(list[i].s)]

\* set that writes the entry without resolving its tags (a deviation the
\* properties must tell from set)
set_NoFetch(p, key, value, dependencyKeys) ==
    /\ pc[p] = "idle"
    /\ LET list == IF IsNullish(dependencyKeys) THEN <<>>
                   ELSE IF ~IsArray(dependencyKeys) THEN <<dependencyKeys>>
                   ELSE dependencyKeys.a
       IN  Goto(p, "store",
                [IdleFrame EXCEPT !.op = "set",
                                  !.key = _buildDataCacheKey(key),
                                  !.value = value,
                                  !.dependencyKeys = MapDependencyKeys(list)])
    /\ UNCHANGED <<store, now>>

set(p, key, value, dependencyKeys) ==
    /\ pc[p] = "idle"
    /\ LET list == IF IsNullish(dependencyKeys) THEN <<>>
                   ELSE IF ~IsArray(dependencyKeys) THEN <<dependencyKeys>>
                   ELSE dependencyKeys.a
           f == [IdleFrame EXCEPT !.op = "set",
                                  !.key = _buildDataCacheKey(key),
                                  !.value = value,
                                  !.dependencyKeys = MapDependencyKeys(list)]
       IN  \* _getDependencyVersions reads nothing for an empty list
           IF f.dependencyKeys = <<>> THEN Goto(p, "store", f)
           ELSE Goto(p, "fetch", f)
    /\ UNCHANGED <<store, now>>

get(p, key) ==
    /\ pc[p] = "idle"
    /\ pc' = [pc EXCEPT ![p] = "load"]
    /\ frame' = [frame EXCEPT ![p] = [IdleFrame EXCEPT
                                        !.op = "get",
                                        !.key = _buildDataCacheKey(key)]]
    /\ obs' = [obs EXCEPT ![_buildDataCacheKey(key)].watch =
                             IF obs[_buildDataCacheKey(key)].phase = "stale"
                             THEN @ \cup {p} ELSE @]
    /\ UNCHANGED <<store, now>>

delete(p, key) ==
    /\ pc[p] = "idle"
    /\ Goto(p, "del", [IdleFrame EXCEPT !.op = "delete",
                                        !.key = _buildDataCacheKey(key)])
    /\ UNCHANGED <<store, now>>

\* invalidate that, given no tag, writes a new version to every tag (a
\* deviation the properties must tell from invalidate)
invalidate_NoneTouchesAll(p, dependencyKeys) ==
    /\ pc[p] = "idle"
    /\ IF Truthy(dependencyKeys)
       THEN LET list == IF ~IsArray(dependencyKeys) THEN <<dependencyKeys>>
                        ELSE dependencyKeys.a
                f == [IdleFrame EXCEPT !.op = "invalidate",
                                       !.dependencyKeys = MapDependencyKeys(list),
                                       !.version = StringOfDate(now)]
            IN  IF f.dependencyKeys = <<>>
                THEN /\ Finish(p, [f EXCEPT !.ret = Bool(TRUE)])
                     /\ store' = [k \in StoreKeys |->
                                    IF k \in TagKeys THEN f.version
                                    ELSE store[k]]
                ELSE Goto(p, "touch", f) /\ UNCHANGED store
       ELSE /\ Finish(p, [IdleFrame EXCEPT !.op = "invalidate",
                                           !.ret = Bool(FALSE)])
            /\ store' = [k \in StoreKeys |->
                           IF k \in TagKeys THEN StringOfDate(now)
                           ELSE store[k]]
    /\ UNCHANGED now

\* _updateDependencyVersions takes its version on entry, before any write
invalidate(p, dependencyKeys) ==
    /\ pc[p] = "idle"
    /\ IF Truthy(dependencyKeys)
       THEN LET list == IF ~IsArray(dependencyKeys) THEN <<dependencyKeys>>
                        ELSE dependencyKeys.a
                f == [IdleFrame EXCEPT !.op = "invalidate",
                                       !.dependencyKeys = MapDependencyKeys(list),
                                       !.version = StringOfDate(now)]
            IN  IF f.dependencyKeys = <<>>
                THEN Finish(p, [f EXCEPT !.ret = Bool(TRUE)])
                ELSE Goto(p, "touch", f)
       ELSE Finish(p, [IdleFrame EXCEPT !.op = "invalidate",
                                        !.ret = Bool(FALSE)])
    /\ UNCHANGED <<store, now>>

(***************************************************************************)
(* Steps: one store call each.                                             *)
(***************************************************************************)
\* get: cacheManager.get(cacheKey), JSON.parse, and the validation up to
\* its first read of a tag
getData(p) ==
    /\ pc[p] = "load"
    /\ LET cachedData == store[frame[p].key]
           f == [frame[p] EXCEPT
                   !.cachedData = cachedData,
                   !.calls = Append(@, StoreCall("get", frame[p].key))]
           data == JSONparse(cachedData)
           shape == ValidateShape(data)
       IN  IF cachedData.t = "undefined"
           THEN Finish(p, [f EXCEPT !.ret = Undefined])
           ELSE IF data.t = "throw" THEN Finish(p, [f EXCEPT !.ret = data])
           ELSE CASE shape = "invalid" -> Finish(p, [f EXCEPT !.ret = Undefined])
                  [] shape = "valid" -> Finish(p, [f EXCEPT !.ret = data.a[1]])
                  [] shape = "throw" ->
                       Finish(p, [f EXCEPT !.ret = Throw("TypeError")])
                  [] OTHER ->
                       Goto(p, "fetch",
                            [f EXCEPT !.dependencyKeys = SnapshotKeys(data)])
    /\ UNCHANGED <<store, now>>

\* _getDependencyVersions whose get evicts the entry it finds stale (a
\* deviation the properties must tell from _getDependencyVersions)
_getDependencyVersions_Evict(p) ==
    /\ pc[p] = "fetch"
    /\ LET e == frame[p].dependencyKeys[Len(frame[p].itemObjects) + 1]
           f == [frame[p] EXCEPT !.calls = Append(@, StoreCall("get", e))]
           itemObjects == Append(f.itemObjects, Dependency(e, store[e]))
       IN  IF Len(itemObjects) < Len(f.dependencyKeys)
           THEN Goto(p, "fetch", [f EXCEPT !.itemObjects = itemObjects])
                /\ UNCHANGED store
           ELSE IF f.op = "set"
           THEN LET g == [f EXCEPT
                            !.itemObjects = <<>>,
                            !.currentDependencies = itemObjects,
                            !.newDependencyKeys = UnavailableKeys(itemObjects)]
                IN  /\ IF g.newDependencyKeys # <<>> THEN Goto(p, "mint", g)
                       ELSE Goto(p, "store", g)
                    /\ UNCHANGED store
           ELSE LET data == JSONparse(f.cachedData)
                    isValid == isEqual(DependenciesValue(itemObjects), data.a[2])
                IN  /\ Finish(p, [f EXCEPT
                                    !.itemObjects = itemObjects,
                                    !.ret = IF isValid THEN data.a[1]
                                            ELSE Undefined])
                    /\ store' = IF isValid THEN store
                                ELSE [store EXCEPT ![f.key] = Undefined]
    /\ UNCHANGED now

\* one iteration of _getDependencyVersions' loop; after the last one the
\* caller goes on: _generateDependencyVersions (set) collects the keys
\* without a version, _validateDependencyVersions (get) compares
_getDependencyVersions(p) ==
    /\ pc[p] = "fetch"
    /\ LET e == frame[p].dependencyKeys[Len(frame[p].itemObjects) + 1]
           f == [frame[p] EXCEPT !.calls = Append(@, StoreCall("get", e))]
           itemObjects == Append(f.itemObjects, Dependency(e, store[e]))
       IN  IF Len(itemObjects) < Len(f.dependencyKeys)
           THEN Goto(p, "fetch", [f EXCEPT !.itemObjects = itemObjects])
           ELSE IF f.op = "set"
           THEN LET g == [f EXCEPT
                            !.itemObjects = <<>>,
                            !.currentDependencies = itemObjects,
                            !.newDependencyKeys = UnavailableKeys(itemObjects)]
                IN  IF g.newDependencyKeys # <<>> THEN Goto(p, "mint", g)
                    ELSE Goto(p, "store", g)
           ELSE LET data == JSONparse(f.cachedData)
                    isValid == isEqual(DependenciesValue(itemObjects), data.a[2])
                IN  Finish(p, [f EXCEPT
                                 !.itemObjects = itemObjects,
                                 !.ret = IF isValid THEN data.a[1]
                                         ELSE Undefined])
    /\ UNCHANGED <<store, now>>

\* the keys _updateDependencyVersions was called with
TouchKeys(f) ==
    IF f.op = "set" THEN f.newDependencyKeys ELSE f.dependencyKeys

\* set: _generateDependencyVersions enters _updateDependencyVersions,
\* which takes String(Date.now())
_generateDependencyVersions(p) ==
    /\ pc[p] = "mint"
    /\ Goto(p, "touch", [frame[p] EXCEPT !.version = StringOfDate(now)])
    /\ UNCHANGED <<store, now>>

\* _updateDependencyVersions taking a new token for every key it writes (a
\* deviation the properties must tell from _updateDependencyVersions)
_updateDependencyVersions_TokenPerKey(p) ==
    /\ pc[p] = "touch"
    /\ LET k == TouchKeys(frame[p])[Len(frame[p].itemObjects) + 1]
           f == [frame[p] EXCEPT !.calls = Append(@, StoreCall("set", k))]
           version == StringOfDate(now)
           itemObjects == Append(f.itemObjects, Dependency(k, version))
       IN  /\ store' = [store EXCEPT ![k] = version]
           /\ IF Len(itemObjects) < Len(TouchKeys(f))
              THEN Goto(p, "touch", [f EXCEPT !.itemObjects = itemObjects])
              ELSE IF f.op = "invalidate"
              THEN Finish(p, [f EXCEPT !.itemObjects = itemObjects,
                                       !.ret = Bool(TRUE)])
              ELSE Goto(p, "store",
                        [f EXCEPT
                           !.itemObjects = itemObjects,
                           !.currentDependencies =
                               _mergeDependencyVersions(f.currentDependencies,
                                                        itemObjects)])
    /\ UNCHANGED now

\* one iteration of _updateDependencyVersions' loop; after the last one
\* invalidate returns true and set merges the new records
_updateDependencyVersions(p) ==
    /\ pc[p] = "touch"
    /\ LET k == TouchKeys(frame[p])[Len(frame[p].itemObjects) + 1]
           f == [frame[p] EXCEPT !.calls = Append(@, StoreCall("set", k))]
           itemObjects == Append(f.itemObjects, Dependency(k, f.version))
       IN  /\ store' = [store EXCEPT ![k] = f.version]
           /\ IF Len(itemObjects) < Len(TouchKeys(f))
              THEN Goto(p, "touch", [f EXCEPT !.itemObjects = itemObjects])
              ELSE IF f.op = "invalidate"
              THEN Finish(p, [f EXCEPT !.itemObjects = itemObjects,
                                       !.ret = Bool(TRUE)])
              ELSE Goto(p, "store",
                        [f EXCEPT
                           !.itemObjects = itemObjects,
                           !.currentDependencies =
                               _mergeDependencyVersions(f.currentDependencies,
                                                        itemObjects)])
    /\ UNCHANGED now

\* set: cacheManager.set(cacheKey, JSON.stringify([value, dependencies]))
setData(p) ==
    /\ pc[p] = "store"
    /\ LET f == [frame[p] EXCEPT
                   !.calls = Append(@, StoreCall("set", frame[p].key))]
           entry == Arr(<<f.value, DependenciesValue(f.currentDependencies)>>)
       IN  /\ store' = [store EXCEPT ![f.key] = JSONstringify(entry)]
           /\ Finish(p, [f EXCEPT !.ret = Undefined])
    /\ UNCHANGED now

\* deleteData that also drops the tag versions (a deviation the properties
\* must tell from deleteData)
deleteData_WithTags(p) ==
    /\ pc[p] = "del"
    /\ store' = [k \in StoreKeys |->
                   IF k = frame[p].key \/ k \in TagKeys THEN Undefined
                   ELSE store[k]]
    /\ Finish(p, [frame[p] EXCEPT
                     !.ret = Undefined,
                     !.calls = Append(@, StoreCall("del", frame[p].key))])
    /\ UNCHANGED now

\* delete: cacheManager.del(cacheKey)
deleteData(p) ==
    /\ pc[p] = "del"
    /\ store' = [store EXCEPT ![frame[p].key] = Undefined]
    /\ Finish(p, [frame[p] EXCEPT
                     !.ret = Undefined,
                     !.calls = Append(@, StoreCall("del", frame[p].key))])
    /\ UNCHANGED now

\* the store call the call of p is about to issue at position l
PendingCall(f, l) ==
    CASE l = "load" -> StoreCall("get", f.key)
      [] l = "fetch" -> StoreCall("get", f.dependencyKeys[Len(f.itemObjects) + 1])
      [] l = "touch" -> StoreCall("set", TouchKeys(f)[Len(f.itemObjects) + 1])
      [] l = "store" -> StoreCall("set", f.key)
      [] l = "del" -> StoreCall("del", f.key)

\* StoreFails that undoes the tag writes of the failed call (a deviation
\* the properties must tell from StoreFails)
StoreFails_Rollback(p) ==
    /\ pc[p] \in {"load", "fetch", "touch", "store", "del"}
    /\ store' = [k \in StoreKeys |->
                   IF StoreCall("set", k) \in Range(frame[p].calls)
                   THEN Undefined ELSE store[k]]
    /\ Finish(p, [frame[p] EXCEPT
                     !.ret = StoreError,
                     !.calls = Append(@, PendingCall(frame[p], pc[p]))])
    /\ UNCHANGED now

\* the store call the call of p issues rejects: no await in the service is
\* inside a try/catch, so the call settles with the fault there and then.
\* A rejected write may or may not have reached the store.
StoreFails(p) ==
    /\ pc[p] \in {"load", "fetch", "touch", "store", "del"}
    /\ LET c == PendingCall(frame[p], pc[p])
           entry == Arr(<<frame[p].value,
                          DependenciesValue(frame[p].currentDependencies)>>)
       IN  /\ \/ store' = store
              \/ /\ c.op # "get"
                 /\ store' = [store EXCEPT
                                ![c.key] =
                                    CASE pc[p] = "touch" -> frame[p].version
                                      [] pc[p] = "store" -> JSONstringify(entry)
                                      [] OTHER -> Undefined]
           /\ Finish(p, [frame[p] EXCEPT !.ret = StoreError,
                                         !.calls = Append(@, c)])
    /\ UNCHANGED now

\* the caller takes the result; its next call starts from fresh locals
Return(p) ==
    /\ pc[p] = "done"
    /\ pc' = [pc EXCEPT ![p] = "idle"]
    /\ frame' = [frame EXCEPT ![p] = IdleFrame]
    /\ UNCHANGED <<store, now, obs>>

\* a millisecond passes
Tick ==
    /\ now < MaxTime
    /\ now' = now + 1
    /\ UNCHANGED <<store, pc, frame, obs>>

Call(p, keys, values, setInputs, invalidateInputs) ==
    \/ \E key \in keys, value \in values, dependencyKeys \in setInputs :
          set(p, key, value, dependencyKeys)
    \/ \E key \in keys : get(p, key)
    \/ \E key \in keys : delete(p, key)
    \/ \E dependencyKeys \in invalidateInputs : invalidate(p, dependencyKeys)

Step(p) ==
    \/ getData(p)
    \/ _getDependencyVersions(p)
    \/ _generateDependencyVersions(p)
    \/ _updateDependencyVersions(p)
    \/ setData(p)
    \/ deleteData(p)
    \/ Return(p)

(***************************************************************************)
(* SpecSeq: sequential execution, one caller issuing one call after the    *)
(* other, over the whole input domain.                                     *)
(***************************************************************************)
SeqCaller == "p1"

NextSeq ==
    \/ Tick
    \/ Call(SeqCaller, Keys, Values, SetDependencyInputs, InvalidateInputs)
    \/ Step(SeqCaller)

SpecSeq == Init /\ [][NextSeq]_vars

(***************************************************************************)
(* Spec: callers run concurrently against the one store, every store call  *)
(* of one interleaved with those of the other.  Two callers, both data     *)
(* keys, one tag: the calls that race are those naming the same tag.       *)
(***************************************************************************)
ConcurrentSetInputs == { Arr(<<Str("a")>>) }
ConcurrentInvalidateInputs == { Arr(<<Str("a")>>) }
ConcurrentValues == { Str("v1") }

Next ==
    \/ Tick
    \/ \E p \in Procs :
          \/ Call(p, Keys, ConcurrentValues, ConcurrentSetInputs,
                  ConcurrentInvalidateInputs)
          \/ Step(p)

Spec == Init /\ [][Next]_vars

(***************************************************************************)
(* SpecOneValue: sequential execution over the whole domain of tag lists,  *)
(* every set storing the same value (for what does not depend on which     *)
(* value an entry holds).                                                  *)
(***************************************************************************)
NextOneValue ==
    \/ Tick
    \/ Call(SeqCaller, Keys, ConcurrentValues, SetDependencyInputs,
            InvalidateInputs)
    \/ Step(SeqCaller)

SpecOneValue == Init /\ [][NextOneValue]_vars

(***************************************************************************)
(* SpecRace: concurrent callers that never call invalidate.                *)
(***************************************************************************)
NextRace ==
    \/ Tick
    \/ \E p \in Procs :
          \/ \E key \in Keys, value \in ConcurrentValues,
                dependencyKeys \in ConcurrentSetInputs :
                set(p, key, value, dependencyKeys)
          \/ \E key \in Keys : get(p, key)
          \/ \E key \in Keys : delete(p, key)
          \/ Step(p)

SpecRace == Init /\ [][NextRace]_vars

(***************************************************************************)
(* SpecExt: sequential execution over a store that other writers have left *)
(* arbitrary strings in under the data keys.                               *)
(***************************************************************************)
JSONText(v) == [t |-> "string", json |-> v]

MalformedPayloads ==
    { Str("not json"),
      JSONText(Num(5)),
      JSONText(Null),
      JSONText(Arr(<<Str("v1")>>)),
      JSONText(Arr(<<Str("v1"), Num(5)>>)),
      JSONText(Arr(<<Str("v1"), Arr(<<Null>>)>>)),
      JSONText(Arr(<<Str("v1"), Arr(<<Obj([key |-> Str("T_a")])>>)>>)) }

InitExt ==
    /\ store \in { [k \in StoreKeys |-> IF k \in DataKeys THEN data[k]
                                        ELSE Undefined] :
                   data \in [DataKeys -> MalformedPayloads \cup {Undefined}] }
    /\ now = 1
    /\ pc = [p \in Procs |-> "idle"]
    /\ frame = [p \in Procs |-> IdleFrame]
    /\ obs = [d \in DataKeys |-> NoEntry]

NextExt ==
    \/ Tick
    \/ Call(SeqCaller, Keys, ConcurrentValues, ConcurrentSetInputs,
            ConcurrentInvalidateInputs)
    \/ Step(SeqCaller)

SpecExt == InitExt /\ [][NextExt]_vars

(***************************************************************************)
(* SpecFail: sequential execution over a store any call on which may       *)
(* reject.                                                                 *)
(***************************************************************************)
FailSetInputs ==
    { Arr(<<>>), Arr(<<Str("a")>>), Arr(<<Str("a"), Str("b")>>) }
FailInvalidateInputs == { Arr(<<Str("a")>>), Arr(<<Str("a"), Str("b")>>) }

NextFail ==
    \/ Tick
    \/ Call(SeqCaller, Keys, ConcurrentValues, FailSetInputs,
            FailInvalidateInputs)
    \/ Step(SeqCaller)
    \/ StoreFails(SeqCaller)

SpecFail == Init /\ [][NextFail]_vars

(***************************************************************************)
(* SpecDistinct: concurrent callers, tag lists that may name a tag twice,  *)
(* restricted to the executions in which every token a touch takes differs *)
(* from every token that is held anywhere (in the store, in a stored       *)
(* snapshot or by a call in flight).  Tokens are only ever compared for    *)
(* equality, and a token that nobody holds is never compared again, so     *)
(* these are, up to the names of the tokens, the executions in which every *)
(* touch takes a token distinct from every token taken before it.          *)
(***************************************************************************)
DistinctSetInputs == { Arr(<<Str("a")>>) }
DistinctInvalidateInputs == { Arr(<<Str("a")>>), Arr(<<Str("a"), Str("a")>>) }

\* the versions recorded in the snapshot of a stored entry
SnapshotVersions(cachedData) ==
    IF "json" \in DOMAIN cachedData
    THEN { Member(cachedData.json.a[2].a[i], "version") :
             i \in DOMAIN cachedData.json.a[2].a }
    ELSE {}

\* the versions held by the call with locals f
FrameVersions(f) ==
    {f.version}
       \cup { f.itemObjects[i].version : i \in DOMAIN f.itemObjects }
       \cup { f.currentDependencies[i].version :
                 i \in DOMAIN f.currentDependencies }
       \cup SnapshotVersions(f.cachedData)

HeldTokens ==
    { store[t] : t \in TagKeys }
       \cup UNION { SnapshotVersions(store[d]) : d \in DataKeys }
       \cup UNION { FrameVersions(frame[p]) : p \in Procs }

\* the token String(Date.now()) would give now is held by nobody
TokenDistinct == StringOfDate(now) \notin HeldTokens

\* the steps of a call other than the one in which set takes its token
StepDistinct(p) ==
    \/ getData(p)
    \/ _getDependencyVersions(p)
    \/ _updateDependencyVersions(p)
    \/ setData(p)
    \/ deleteData(p)
    \/ Return(p)

NextDistinct ==
    \/ Tick
    \/ \E p \in Procs :
          \/ \E key \in Keys, value \in ConcurrentValues,
                dependencyKeys \in DistinctSetInputs :
                set(p, key, value, dependencyKeys)
          \/ \E key \in Keys : get(p, key)
          \/ \E key \in Keys : delete(p, key)
          \/ \E dependencyKeys \in DistinctInvalidateInputs :
                TokenDistinct /\ invalidate(p, dependencyKeys)
          \/ TokenDistinct /\ _generateDependencyVersions(p)
          \/ StepDistinct(p)

SpecDistinct == Init /\ [][NextDistinct]_vars

TypeOK ==
    /\ now \in 1..MaxTime
    /\ \A p \in Procs : pc[p] \in {"idle", "load", "fetch", "mint", "touch",
                                   "store", "del", "done"}

(***************************************************************************)
(* Properties.                                                             *)
(***************************************************************************)
\* the call of p settles in this step, and it is a call of op
Completes(p, op) ==
    pc[p] # "done" /\ pc'[p] = "done" /\ frame'[p].op = op

\* the call of p has settled, and it is a call of op
Completed(p, op) == pc[p] = "done" /\ frame[p].op = op

\* C1 (SpecSeq): once set(k, v, tags) has completed, a get(k) has returned v
\* and after it an invalidate naming at least one of the tags has completed,
\* a get(k) returns not-found, whatever the timing of the calls.
C1_InvalidatedEntryNotFound ==
    \A p \in Procs :
       Completed(p, "get") /\ obs[frame[p].key].phase = "touched"
          => frame[p].ret = Undefined

\* C2 (SpecSeq): a get(k) issued immediately after a set(k, v, tags) that
\* found one or more of its tags without a recorded version returns v.
C2_GetAfterMintingSet ==
    [][\A p \in Procs :
          Completes(p, "get") /\ obs[frame'[p].key].phase = "minted"
             => frame'[p].ret = obs[frame'[p].key].value]_vars

\* the entry last set under data key d, as the callers have seen it
Entry(d) == obs[d]

\* C3 (SpecSeq): entries that are each set with the same single tag T stay
\* readable while no invalidate naming T has completed; a set never changes
\* the version of a tag that had one when the set was called, and embeds that
\* version in its snapshot; and once an invalidate naming T has completed,
\* get returns not-found for every one of them.
C3_SharedTagEntries ==
    [][\A p \in Procs :
          /\ Completes(p, "get") /\ Len(Entry(frame'[p].key).deps) = 1
                /\ Entry(frame'[p].key).phase \in {"minted", "fresh", "set", "read"}
                => frame'[p].ret = Entry(frame'[p].key).value
          /\ frame[p].op = "set" /\ frame'[p] # frame[p]
                => \A t \in TagKeys :
                      store[t] # Undefined => store'[t] = store[t]
          /\ Completes(p, "set")
                => \A i \in DOMAIN frame[p].currentDependencies :
                      LET d == frame[p].currentDependencies[i] IN
                      d.key \notin Range(frame[p].newDependencyKeys)
                         => /\ d.version = store[d.key]
                            /\ JSONparse(store'[frame[p].key]).a[2].a[i]
                                 = Obj([key |-> Str(d.key),
                                        version |-> store[d.key]])
          /\ Completes(p, "get") /\ Len(Entry(frame'[p].key).deps) = 1
                /\ Entry(frame'[p].key).phase \in {"hit", "touched"}
                => frame'[p].ret = Undefined]_vars

\* C4 (SpecSeq): an invalidate does not change what get(k) returns for an
\* entry none of whose tags it names (a get that returned the value returns
\* it again while only other tags are invalidated), and for an entry one of
\* whose tags it names get returns not-found afterwards.
C4_TagIsolation ==
    [][\A p \in Procs :
          /\ Completes(p, "get") /\ Entry(frame'[p].key).phase = "read"
                => frame'[p].ret = Entry(frame'[p].key).value
          /\ Completes(p, "get")
                /\ Entry(frame'[p].key).phase \in {"hit", "touched"}
                => frame'[p].ret = Undefined]_vars

\* C5 (SpecOneValue): while the entry set by set(k, v, ttl, []) (or with no
\* dependencyKeys) has not been deleted or overwritten, get(k) returns v,
\* whatever invalidate calls and calls on other keys have completed.
C5_NoDependencyRoundTrip ==
    \A p \in Procs :
       Completed(p, "get") /\ Entry(frame[p].key).phase \in {"set", "read"}
          /\ Entry(frame[p].key).deps = <<>>
          => frame[p].ret = Entry(frame[p].key).value

\* C5 witness: get returned the value of an entry without dependencies after
\* an invalidate had made the other key's entry stale or it had been deleted
C5_Witness ==
    \E p \in Procs :
       /\ Completed(p, "get")
       /\ Entry(frame[p].key).phase = "read"
       /\ Entry(frame[p].key).deps = <<>>
       /\ frame[p].ret = Entry(frame[p].key).value
       /\ frame[p].ret \in Values
       /\ \E d \in DataKeys \ {frame[p].key} :
             Entry(d).phase \in {"touched", "deleted"}
       /\ \A t \in TagKeys : store[t] # Undefined

\* a {key, version} record as JSON.parse returns it
WellFormedRecord(e) ==
    /\ e.t = "object"
    /\ DOMAIN e.o = {"key", "version"}
    /\ e.o.key.t = "string"
    /\ e.o.version.t = "string"

\* the stored string does not deserialize, or not to a 2-element sequence,
\* or its second element is not a sequence of {key, version} records
Malformed(cachedData) ==
    \/ "json" \notin DOMAIN cachedData
    \/ ~(IsArray(cachedData.json) /\ Len(cachedData.json.a) = 2)
    \/ /\ cachedData.json.a[2].t # "null"
       /\ ~(/\ IsArray(cachedData.json.a[2])
            /\ \A i \in DOMAIN cachedData.json.a[2].a :
                  WellFormedRecord(cachedData.json.a[2].a[i]))

\* C6 (SpecExt): get(k) on a malformed stored payload returns not-found and
\* never ends in a fault.
C6_MalformedPayloadNotFound ==
    \A p \in Procs :
       Completed(p, "get") /\ frame[p].cachedData.t # "undefined"
          /\ Malformed(frame[p].cachedData)
          => frame[p].ret = Undefined

\* C7 (SpecSeq): invalidate returns true exactly when it was given at least
\* one tag; with an empty sequence or none it returns false.
C7_InvalidateResult ==
    \A p \in Procs :
       Completed(p, "invalidate")
          => (frame[p].ret = Bool(TRUE) <=> frame[p].dependencyKeys # <<>>)

\* C8 (SpecOneValue): delete(k) removes the data entry of k and changes nothing
\* else in the store; after it get(k) returns not-found until k is set
\* again, and a get that returned another entry's value returns it again.
C8_DeleteOnlyRemovesEntry ==
    [][\A p \in Procs :
          /\ Completes(p, "delete")
                => /\ frame[p].key \in {"D_k1", "D_k2"}
                   /\ store' = [store EXCEPT ![frame[p].key] = Undefined]
          /\ Completes(p, "get") /\ Entry(frame'[p].key).phase = "deleted"
                => frame'[p].ret = Undefined
          /\ Completes(p, "get") /\ Entry(frame'[p].key).phase = "read"
                /\ (\E d \in DataKeys : Entry(d).phase = "deleted")
                => frame'[p].ret = Entry(frame'[p].key).value]_vars

\* C8 witness: get(k) returned not-found after delete(k), the tags k had
\* still carry versions and the other key's entry is still stored
C8_Witness ==
    \E p \in Procs :
       /\ Completed(p, "get")
       /\ Entry(frame[p].key).phase = "deleted"
       /\ frame[p].ret = Undefined
       /\ \A t \in TagKeys : store[t] # Undefined
       /\ \E d \in DataKeys \ {frame[p].key} :
             /\ store[d] # Undefined
             /\ Entry(d).phase = "read"

\* p performs one iteration of _updateDependencyVersions' loop in this step
Touches(p) == pc[p] = "touch" /\ frame'[p] # frame[p]

\* the tag key that iteration writes
TouchedKey(p) == TouchKeys(frame[p])[Len(frame[p].itemObjects) + 1]

\* the step is a step of a call of op by p
StepOf(p, op) == frame[p].op = op /\ frame'[p] # frame[p]

\* C9 as stated (Spec): under any interleaving a set writes a tag key only
\* while that tag has no recorded version, a write that changes a tag key
\* from one recorded version to another is issued by an invalidate, and get
\* and delete never write tag keys.
C9_OnlyInvalidateReplaces ==
    [][\A p \in Procs :
          /\ Touches(p) /\ frame[p].op = "set"
                => store[TouchedKey(p)] = Undefined
          /\ \A t \in TagKeys :
                frame'[p] # frame[p] /\ store[t] # Undefined
                   /\ store'[t] # store[t]
                   => frame[p].op = "invalidate"
          /\ StepOf(p, "get") \/ StepOf(p, "delete")
                => \A t \in TagKeys : store'[t] = store[t]]_vars

\* the read of key k by the set of p found no recorded version
ReadAbsent(p, k) ==
    \E i \in DOMAIN frame[p].currentDependencies :
       frame[p].currentDependencies[i] = Dependency(k, Undefined)

\* C9 as amended (Spec): a set writes a tag key only if its own earlier read
\* of that key found no recorded version; a write that changes a tag key is
\* issued by an invalidate or by such a set (which may replace a version
\* recorded since its read), and get and delete never write tag keys.
C9_SetWritesWhatItReadAbsent ==
    [][\A p \in Procs :
          /\ Touches(p) /\ frame[p].op = "set"
                => ReadAbsent(p, TouchedKey(p))
          /\ \A t \in TagKeys :
                frame'[p] # frame[p] /\ store'[t] # store[t]
                   => /\ Touches(p) /\ t = TouchedKey(p)
                      /\ \/ frame[p].op = "invalidate"
                         \/ frame[p].op = "set" /\ ReadAbsent(p, t)
          /\ StepOf(p, "get") \/ StepOf(p, "delete")
                => \A t \in TagKeys : store'[t] = store[t]]_vars

\* C9 witness: the set of p has written a tag that another call had written
\* with another version, and the version of p is the one stored
C9_Witness ==
    \E p \in Procs, q \in Procs, t \in TagKeys :
       /\ p # q
       /\ frame[p].op = "set" /\ pc[p] \in {"store", "done"}
       /\ frame[q].op \in {"set", "invalidate"}
       /\ Dependency(t, frame[p].version) \in Range(frame[p].itemObjects)
       /\ Dependency(t, frame[q].version) \in Range(frame[q].itemObjects)
       /\ frame[p].version # frame[q].version
       /\ store[t] = frame[p].version

\* the snapshot stored in a well-formed entry
Snapshot(cachedData) == cachedData.json.a[2].a

\* C10 (SpecRace, no invalidate is ever called): a get on an entry whose
\* snapshot carries, for some tag, a version other than the one now read for
\* that tag (the mint of a concurrent set has replaced it) returns not-found.
C10_OverwrittenMintNotFound ==
    \A p \in Procs :
       Completed(p, "get") /\ frame[p].cachedData.t # "undefined"
          /\ (\E i \in DOMAIN frame[p].itemObjects :
                 Snapshot(frame[p].cachedData)[i]
                    # Obj([key |-> Str(frame[p].itemObjects[i].key),
                           version |-> frame[p].itemObjects[i].version]))
          => frame[p].ret = Undefined

\* C10 witness: both sets have completed (both entries are stored, nobody
\* else is in a call), each embedded its own mint of T_a, the later
\* mint is the stored one, and get on the other entry returned not-found
C10_Witness ==
    \E p \in Procs, d \in DataKeys :
       /\ Completed(p, "get") /\ frame[p].ret = Undefined
       /\ \A q \in Procs \ {p} : pc[q] = "idle"
       /\ d # frame[p].key
       /\ store[d] # Undefined
       /\ frame[p].cachedData = store[frame[p].key]
       /\ frame[p].cachedData.t # "undefined"
       /\ Len(Snapshot(frame[p].cachedData)) = 1
       /\ Len(Snapshot(store[d])) = 1
       /\ Snapshot(store[d])[1]
            = Obj([key |-> Str("T_a"), version |-> store["T_a"]])
       /\ Member(Snapshot(frame[p].cachedData)[1], "key") = Str("T_a")
       /\ Member(Snapshot(frame[p].cachedData)[1], "version").t = "string"
       /\ Member(Snapshot(frame[p].cachedData)[1], "version") # store["T_a"]

\* C11 (Spec): no step of a get call writes to or deletes from the store,
\* whatever the get returns; a get that finds the entry stale returns
\* not-found and leaves the stale entry and all tag versions as they were.
C11_GetLeavesStoreAlone ==
    [][\A p \in Procs :
          /\ frame'[p].op = "get" /\ frame'[p] # frame[p] => store' = store
          /\ Completes(p, "get")
                => \A i \in DOMAIN frame'[p].calls :
                      frame'[p].calls[i].op = "get"]_vars

\* C11 witness: a get has read the entry and its tag, found the snapshot
\* differing from the tag's version and returned not-found; the entry it
\* read is still stored
C11_Witness ==
    \E p \in Procs :
       /\ Completed(p, "get") /\ frame[p].ret = Undefined
       /\ \A q \in Procs \ {p} : pc[q] = "idle"
       /\ frame[p].cachedData.t # "undefined"
       /\ store[frame[p].key] = frame[p].cachedData
       /\ Len(frame[p].itemObjects) = 1
       /\ frame[p].itemObjects[1].version = store[frame[p].itemObjects[1].key]
       /\ Member(Snapshot(frame[p].cachedData)[1], "version").t = "string"
       /\ Member(Snapshot(frame[p].cachedData)[1], "version")
            # frame[p].itemObjects[1].version

\* C12 (SpecOneValue): invalidate called with an empty sequence or with none
\* settles without issuing any store call: every tag version and every data
\* entry is as before the call, hence so is what any get reads.
C12_EmptyInvalidateNoStoreCall ==
    [][\A p \in Procs :
          Completes(p, "invalidate") /\ frame'[p].dependencyKeys = <<>>
             => /\ pc[p] = "idle"
                /\ frame'[p].calls = <<>>
                /\ store' = store]_vars

\* C12 witness: invalidate([]) has settled over a store holding an entry
\* and the versions of both tags, at a clock value other than theirs
C12_Witness ==
    \E p \in Procs :
       /\ Completed(p, "invalidate")
       /\ frame[p].dependencyKeys = <<>>
       /\ frame[p].version = StringOfDate(now)
       /\ frame[p].calls = <<>>
       /\ \A t \in TagKeys : store[t] \notin {Undefined, StringOfDate(now)}
       /\ \E d \in DataKeys : store[d] # Undefined /\ Entry(d).phase = "read"

\* C13 (SpecSeq): for every sequence of tag keys given to set (the empty
\* one, and one naming a key twice, included) the snapshot that
\* _generateDependencyVersions returns has one record per input position, in
\* input order, each with a concrete version equal to the version stored for
\* its key.
C13_SnapshotResolved ==
    \A p \in Procs :
       pc[p] = "store" /\ frame[p].op = "set"
          => /\ Len(frame[p].currentDependencies) = Len(frame[p].dependencyKeys)
             /\ \A i \in DOMAIN frame[p].currentDependencies :
                   LET d == frame[p].currentDependencies[i] IN
                   /\ d.key = frame[p].dependencyKeys[i]
                   /\ d.version # Undefined
                   /\ d.version = store[d.key]

\* C14 (SpecSeq): every invalidate bumps the version: the version an
\* invalidate writes for a tag differs from the version stored for it before
\* the call, also within the clock tick in which the tag was last written.
C14_InvalidateBumpsVersion ==
    [][\A p \in Procs :
          Touches(p) /\ frame[p].op = "invalidate"
             => store'[TouchedKey(p)] # store[TouchedKey(p)]]_vars

\* the clock value a version token was generated at
TimeOf(version) == CHOOSE n \in 1..MaxTime : StringOfDate(n) = version

\* C15 (Spec): under any interleaving the version stored for a tag only
\* advances: no store write replaces a recorded version with a token that
\* was generated earlier than the token it replaces.
C15_VersionsAdvance ==
    [][\A p \in Procs :
          Touches(p) /\ store[TouchedKey(p)] # Undefined
             => TimeOf(store'[TouchedKey(p)])
                   >= TimeOf(store[TouchedKey(p)])]_vars

\* the record of a stored snapshot agrees with the store: its version is the
\* version now stored under its key (an absent version equals none)
RecordCurrent(e) ==
    /\ Member(e, "key").t = "string"
    /\ Member(e, "key").s \in TagKeys
    /\ Member(e, "version") # Undefined
    /\ Member(e, "version") = store[Member(e, "key").s]

\* the stored string is a 2-element sequence whose snapshot is null, empty,
\* or agrees with the store in every position
EntryValid(cachedData) ==
    /\ cachedData.t # "undefined"
    /\ "json" \in DOMAIN cachedData
    /\ IsArray(cachedData.json)
    /\ Len(cachedData.json.a) = 2
    /\ \/ cachedData.json.a[2] = Null
       \/ /\ IsArray(cachedData.json.a[2])
          /\ \A i \in DOMAIN cachedData.json.a[2].a :
                RecordCurrent(cachedData.json.a[2].a[i])

\* C16 (SpecExt, no concurrent writer): get(k) returns the stored value if
\* the data entry exists, is a 2-element sequence and its snapshot is null,
\* empty or equal, position by position, to the versions currently stored;
\* in every other case it returns not-found.
C16_ValidityExact ==
    \A p \in Procs :
       Completed(p, "get")
          => IF EntryValid(store[frame[p].key])
             THEN frame[p].ret = store[frame[p].key].json.a[1]
             ELSE frame[p].ret = Undefined

\* C17 (SpecOneValue): one touch uses one token: every write of an invalidate
\* call, and of the minting step of a set call, stores the token the call
\* took on entry, the records it collects all carry that token, and when an
\* invalidate completes all its tags have that one version stored.
C17_OneSharedToken ==
    [][\A p \in Procs :
          /\ Touches(p)
                => /\ frame[p].version.t = "string"
                   /\ frame'[p].version = frame[p].version
                   /\ store'[TouchedKey(p)] = frame[p].version
                   /\ \A i \in DOMAIN frame'[p].itemObjects :
                         frame'[p].itemObjects[i].version = frame[p].version
          /\ Completes(p, "invalidate")
                => \A k \in Range(frame'[p].dependencyKeys) :
                      store'[k] = frame'[p].version]_vars

\* C17 witness: an invalidate of two tags has completed in a later
\* millisecond than it was called in, and both tags carry its token
C17_Witness ==
    \E p \in Procs :
       /\ Completed(p, "invalidate")
       /\ Len(frame[p].dependencyKeys) = 2
       /\ Len(frame[p].itemObjects) = 2
       /\ frame[p].version.t = "string"
       /\ frame[p].version # StringOfDate(now)
       /\ \A k \in Range(frame[p].dependencyKeys) :
             store[k] = frame[p].version
       /\ frame[p].dependencyKeys[1] # frame[p].dependencyKeys[2]

\* the reads of the tag keys of a list, in order
TagReads(keys) == [i \in DOMAIN keys |-> StoreCall("get", keys[i])]

\* the writes of the tag keys of a list, in order
TagWrites(keys) == [i \in DOMAIN keys |-> StoreCall("set", keys[i])]

\* the keys of a list that have no version stored, in order
AbsentKeys(keys) == SelectSeq(keys, LAMBDA k : store[k] = Undefined)

\* C18 (SpecOneValue): set with n tag keys issues exactly n tag reads, then one
\* tag write for each position whose key read as absent, then exactly one
\* write of the data entry, which is its last store call; the entry is not
\* in the store before every tag of its snapshot has been read or written.
C18_SetStoreCalls ==
    [][\A p \in Procs :
          /\ StepOf(p, "set") /\ pc[p] = "fetch" /\ pc'[p] # "fetch"
                => /\ frame'[p].calls = TagReads(frame[p].dependencyKeys)
                   /\ frame'[p].newDependencyKeys
                         = AbsentKeys(frame[p].dependencyKeys)
          /\ Completes(p, "set")
                => /\ frame'[p].calls
                         = TagReads(frame[p].dependencyKeys)
                              \o TagWrites(frame[p].newDependencyKeys)
                              \o <<StoreCall("set", frame[p].key)>>
                   /\ \A e \in Range(JSONparse(store'[frame[p].key]).a[2].a) :
                         \E i \in 1..(Len(frame'[p].calls) - 1) :
                            Str(frame'[p].calls[i].key) = Member(e, "key")
          /\ StepOf(p, "set") /\ ~Completes(p, "set")
                => /\ store'[frame[p].key] = store[frame[p].key]
                   /\ StoreCall("set", frame[p].key)
                         \notin Range(frame'[p].calls)]_vars

\* C18 witness: a set naming two tags, one with a version and one without,
\* has completed after two reads, one tag write and the write of the entry
C18_Witness ==
    \E p \in Procs :
       /\ Completed(p, "set")
       /\ Len(frame[p].dependencyKeys) = 2
       /\ Len(frame[p].newDependencyKeys) = 1
       /\ frame[p].newDependencyKeys[1] = frame[p].dependencyKeys[2]
       /\ Len(frame[p].calls) = 4
       /\ frame[p].calls[4] = StoreCall("set", frame[p].key)
       /\ store[frame[p].key] # Undefined

\* the call of p has ended with a store fault
Faulted(p) == pc[p] = "done" /\ frame[p].ret = StoreError

\* C19 (SpecFail): a call one of whose store calls fails ends with that
\* fault and issues no further store call (the failed call is the last of
\* its log and the store is not written again on its behalf); a set that
\* fails before its final write leaves the data entry of k as it was, and
\* the tag versions the failed call had written stay written.
C19_StoreFailurePropagates ==
    [][\A p \in Procs :
          /\ Faulted(p) => store' = store /\ pc'[p] \in {"done", "idle"}
          /\ pc[p] # "done" /\ pc'[p] = "done" /\ frame'[p].ret = StoreError
                => /\ frame'[p].calls
                         = Append(frame[p].calls, PendingCall(frame[p], pc[p]))
                   /\ frame[p].op = "set" /\ pc[p] # "store"
                         => store'[frame[p].key] = store[frame[p].key]
                   /\ \A i \in DOMAIN frame[p].calls :
                         frame[p].calls[i].op = "set"
                            => store'[frame[p].calls[i].key] = frame[p].version
          /\ StepOf(p, "set") /\ pc[p] # "store"
                => store'[frame[p].key] = store[frame[p].key]]_vars

\* C19 witness: a set naming two absent tags has failed on its second tag
\* write; the first tag carries the version it wrote, the second has none,
\* and the entry stored under k before the call is still there
C19_Witness ==
    \E p \in Procs :
       /\ Faulted(p) /\ frame[p].op = "set"
       /\ frame[p].calls = <<StoreCall("get", "T_a"), StoreCall("get", "T_b"),
                             StoreCall("set", "T_a"), StoreCall("set", "T_b")>>
       /\ store["T_a"] = frame[p].version
       /\ store["T_b"] = Undefined
       /\ store[frame[p].key] # Undefined
       /\ JSONparse(store[frame[p].key]).a[2] = Arr(<<>>)

\* C20 (SpecDistinct): staleness is permanent: once a get(k) has returned
\* not-found because the snapshot of the stored entry did not match the tag
\* versions, every get(k) called afterwards returns not-found as well, until
\* a set(k) writes the data entry; later tag writes never make the entry
\* valid again.
C20_StalenessPermanent ==
    [][\A p \in Procs :
          Completes(p, "get") /\ p \in Entry(frame[p].key).watch
             => frame'[p].ret = Undefined]_vars

====
